---- MODULE Spec2Model ----
(***************************************************************************)
(* A model of the ride-sharing discrete-event simulation:                  *)
(*   container.py  PriorityQueue                                           *)
(*   location.py   Location, manhattan_distance                            *)
(*   driver.py     Driver                                                  *)
(*   rider.py      Rider                                                   *)
(*   dispatcher.py Dispatcher                                              *)
(*   monitor.py    Monitor.notify                                          *)
(*   event.py      RiderRequest, DriverRequest, Cancellation, Pickup,      *)
(*                 Dropoff                                                 *)
(*   simulation.py Simulation.run                                          *)
(*                                                                         *)
(* Python objects are addressed by their id (Rider.__eq__ and              *)
(* Driver.__eq__ compare ids); the mutable fields of the objects live in   *)
(* the functions rider and driver.  Python's None is the value None for    *)
(* ids and results and NoLoc for locations.                                *)
(*                                                                         *)
(* Specifications:                                                         *)
(*   SpecPQ      any interleaving of PriorityQueue.add / remove            *)
(*   SpecDriver  any sequence of Driver method calls                       *)
(*   SpecDisp    any sequence of Dispatcher calls, drivers driving freely  *)
(*   Spec        Simulation.run on a list of initial events                *)
(***************************************************************************)
EXTENDS Integers, Sequences, FiniteSets, TLC

VARIABLES
    events,          \* PriorityQueue.items (Simulation._events)
    initial_events,  \* the part of run()'s argument not yet added
    drivers,         \* Dispatcher.drivers: sequence of driver ids
    waiting_riders,  \* Dispatcher.waiting_riders: sequence of rider ids
    rider,           \* rider id -> [status, patience, origin, destination]
    driver,          \* driver id -> [location, speed, destination]
    activities,      \* Monitor._activities: category -> id -> sequence
    pc,              \* position of the caller
    call,            \* the last call made: [op, arg]
    ret,             \* what the last call returned
    removed          \* every item remove() has returned, in order

vars == <<events, initial_events, drivers, waiting_riders, rider, driver,
          activities, pc, call, ret, removed>>

(***************************************************************************)
(* Bounds of the model.                                                    *)
(***************************************************************************)
MaxPrio == 2        \* SpecPQ: timestamps of the items added are 0..MaxPrio
MaxAdds == 3        \* SpecPQ: number of add() calls in a run
MaxTime == 1        \* Spec: timestamps of the initial events are 0..MaxTime
MaxPatience == 2    \* Spec: a rider's patience is 0..MaxPatience
GridMax == 2        \* SpecDriver: rows and columns are 0..GridMax
MaxSpeed == 2       \* SpecDriver, SpecDisp: a driver's speed is 1..MaxSpeed
MaxWaiting == 2     \* SpecDisp: request_driver is called while the waiting
                    \* list is shorter than MaxWaiting

(***************************************************************************)
(* Values.                                                                 *)
(***************************************************************************)
None == "None"
NoLoc == <<>>
NoCall == [op |-> None, arg |-> <<>>]

WAITING == "waiting"
CANCELLED == "cancelled"
SATISFIED == "satisfied"

RIDER == "rider"
DRIVER == "driver"
REQUEST == "request"
CANCEL == "cancel"
PICKUP == "pickup"
DROPOFF == "dropoff"

EventKinds == {"RiderRequest", "DriverRequest", "Cancellation", "Pickup", "Dropoff"}

Range(s) == {s[i] : i \in DOMAIN s}

(***************************************************************************)
(* event.py: the rich comparisons of Event look at the timestamp only.     *)
(***************************************************************************)
Le(a, b) == a.timestamp <= b.timestamp

Gt(a, b) == ~Le(a, b)

(***************************************************************************)
(* container.py: PriorityQueue.                                            *)
(***************************************************************************)
is_empty(items) == Len(items) = 0

\* Mutant: remove() lets the IndexError of pop(0) out of the method.
RemoveResult_unguarded(items) ==
    IF is_empty(items) THEN <<"IndexError">> ELSE <<Head(items)>>

\* remove(): items.pop(0), or None when pop raises IndexError.  An optional
\* item is <<>> for None and <<item>> for an item.
RemoveResult(items) == IF is_empty(items) THEN <<>> ELSE <<Head(items)>>

RemoveRest(items) == IF is_empty(items) THEN items ELSE Tail(items)

\* Mutants of the comparison: reversed, and not strict.
GoesBehind_reversed(current_item, item) == Gt(item, current_item)

GoesBehind_notstrict(current_item, item) == ~(current_item.timestamp < item.timestamp)

\* The comparison add() makes to send a stored item behind the new one.
GoesBehind(current_item, item) == Gt(current_item, item)

\* Mutant: add() puts every item at the front (items.insert(0, item)).
PQAdd_at_front(items, item) == <<item>> \o items

\* add(): the stored items not greater than item, then item, then the rest.
PQAdd(items, item) ==
    IF is_empty(items)
    THEN <<item>>
    ELSE LET low_priority == SelectSeq(items, LAMBDA c : GoesBehind(c, item))
             high_priority == SelectSeq(items, LAMBDA c : ~GoesBehind(c, item))
         IN  high_priority \o <<item>> \o low_priority

(***************************************************************************)
(* location.py: a Location is the pair <<row, column>>.                    *)
(***************************************************************************)
abs(x) == IF x < 0 THEN -x ELSE x

\* Mutant: the differences are added with their signs.
manhattan_distance_signed(origin, destination) ==
    (destination[1] - origin[1]) + (destination[2] - origin[2])

manhattan_distance(origin, destination) ==
    abs(destination[1] - origin[1]) + abs(destination[2] - origin[2])

(***************************************************************************)
(* driver.py: Driver.  round() of Python 3 rounds an exact half to the     *)
(* even integer; n / d is an exact half only when 2 * (n % d) = d.         *)
(***************************************************************************)
\* Mutant: an exact half is rounded up.
round_div_half_up(n, d) == (2 * n + d) \div (2 * d)

round_div(n, d) ==
    LET q == n \div d
        r == n % d
    IN  IF 2 * r < d THEN q
        ELSE IF 2 * r > d THEN q + 1
        ELSE IF q % 2 = 0 THEN q ELSE q + 1

\* No travel time: the AttributeError that manhattan_distance raises on a
\* location that is None.
AttributeError == -1

get_travel_time(dr, destination) ==
    IF dr.location = NoLoc \/ destination = NoLoc
    THEN AttributeError
    ELSE round_div(manhattan_distance(dr.location, destination), dr.speed)

\* Mutant: the driver is at the location as soon as the drive starts.
start_drive_moves_at_once(dr, location) ==
    [dr EXCEPT !.destination = location, !.location = location]

start_drive(dr, location) == [dr EXCEPT !.destination = location]

\* Mutants: the arrival does not move the driver.
end_drive_stays(dr) == [dr EXCEPT !.destination = NoLoc]

end_ride_stays(dr) == [dr EXCEPT !.destination = NoLoc]

\* Mutants: the arrival does not clear the destination.
end_drive_keeps_destination(dr) == [dr EXCEPT !.location = dr.destination]

end_ride_keeps_destination(dr) == [dr EXCEPT !.location = dr.destination]

end_drive(dr) == [dr EXCEPT !.location = dr.destination, !.destination = NoLoc]

\* Mutant: the ride is started towards the rider's origin.
start_ride_to_origin(dr, rd) == [dr EXCEPT !.destination = rd.origin]

start_ride(dr, rd) == [dr EXCEPT !.destination = rd.destination]

end_ride(dr) == [dr EXCEPT !.location = dr.destination, !.destination = NoLoc]

is_idle(dr) == dr.destination = NoLoc

(***************************************************************************)
(* monitor.py: Monitor.notify.  An identifier that is no key of the        *)
(* dictionary has the empty sequence: notify appends right after it adds   *)
(* a key.                                                                  *)
(***************************************************************************)
notify(acts, timestamp, category, description, identifier, location) ==
    [acts EXCEPT ![category][identifier] =
        Append(@, [time |-> timestamp, description |-> description,
                   id |-> identifier, location |-> location])]

(***************************************************************************)
(* dispatcher.py: Dispatcher.  The state an operation works on is the      *)
(* record w of the dispatcher's two lists, the riders, the drivers and the *)
(* monitor's activities.                                                   *)
(***************************************************************************)
World == [drivers |-> drivers, waiting_riders |-> waiting_riders,
          rider |-> rider, driver |-> driver, activities |-> activities]

\* The (time, driver) pairs request_driver collects, in registry order.
available_drivers(w, r) ==
    LET idle == SelectSeq(w.drivers, LAMBDA d : is_idle(w.driver[d]))
    IN  [i \in DOMAIN idle |->
            [time |-> get_travel_time(w.driver[idle[i]], w.rider[r].origin),
             driver |-> idle[i]]]

\* Mutant: a sort that is not stable puts p ahead of the pairs of its time.
InsertByTime_ahead_of_equal(s, p) ==
    LET before == SelectSeq(s, LAMBDA q : q.time < p.time)
        after == SelectSeq(s, LAMBDA q : ~(q.time < p.time))
    IN  before \o <<p>> \o after

\* Where list.sort(key = time) leaves the pair p among the sorted pairs s:
\* behind every pair whose time is not greater (the sort is stable).
InsertByTime(s, p) ==
    LET before == SelectSeq(s, LAMBDA q : q.time <= p.time)
        after == SelectSeq(s, LAMBDA q : ~(q.time <= p.time))
    IN  before \o <<p>> \o after

RECURSIVE SortByTime(_)
SortByTime(s) ==
    IF s = <<>> THEN <<>>
    ELSE InsertByTime(SortByTime(SubSeq(s, 1, Len(s) - 1)), s[Len(s)])

\* The pair request_driver pops from the sorted list.
fastest_driver(available) == Head(SortByTime(available))

\* Mutant: the rider goes to the head of the waiting list.
request_driver_puts_first(w, r) ==
    LET w1 == [w EXCEPT !.rider[r].status = WAITING]
        available == available_drivers(w1, r)
    IN  IF Len(available) = 0
        THEN [w |-> [w1 EXCEPT !.waiting_riders = <<r>> \o @],
              result |-> None, raised |-> FALSE]
        ELSE [w |-> w1, result |-> fastest_driver(available).driver,
              raised |-> FALSE]

\* request_driver(rider): [w, result, raised].
\* Mutant: the dispatcher sends the chosen driver on its way itself.
request_driver_starts_drive(w, r) ==
    LET w1 == [w EXCEPT !.rider[r].status = WAITING]
        available == available_drivers(w1, r)
        d == fastest_driver(available).driver
    IN  IF \E i \in DOMAIN available : available[i].time = AttributeError
        THEN [w |-> w1, result |-> None, raised |-> TRUE]
        ELSE IF Len(available) = 0
        THEN [w |-> [w1 EXCEPT !.waiting_riders = Append(@, r)],
              result |-> None, raised |-> FALSE]
        ELSE [w |-> [w1 EXCEPT !.driver[d].destination = w.rider[r].origin],
              result |-> d, raised |-> FALSE]

\* Mutant: the rider goes on the waiting list also when a driver is found.
request_driver_lists_matched(w, r) ==
    LET w1 == [w EXCEPT !.rider[r].status = WAITING]
        available == available_drivers(w1, r)
        w2 == [w1 EXCEPT !.waiting_riders = Append(@, r)]
    IN  IF \E i \in DOMAIN available : available[i].time = AttributeError
        THEN [w |-> w1, result |-> None, raised |-> TRUE]
        ELSE IF Len(available) = 0
        THEN [w |-> w2, result |-> None, raised |-> FALSE]
        ELSE [w |-> w2, result |-> fastest_driver(available).driver,
              raised |-> FALSE]

request_driver(w, r) ==
    LET w1 == [w EXCEPT !.rider[r].status = WAITING]
        available == available_drivers(w1, r)
    IN  IF \E i \in DOMAIN available : available[i].time = AttributeError
        THEN [w |-> w1, result |-> None, raised |-> TRUE]
        ELSE IF Len(available) = 0
        THEN [w |-> [w1 EXCEPT !.waiting_riders = Append(@, r)],
              result |-> None, raised |-> FALSE]
        ELSE [w |-> w1, result |-> fastest_driver(available).driver,
              raised |-> FALSE]

\* Mutant: the driver is registered only when a rider is handed to it.
request_rider_registers_on_match(w, d) ==
    LET w1 == IF d \notin Range(w.drivers)
              THEN [w EXCEPT !.drivers = Append(@, d)]
              ELSE w
    IN  IF Len(w.waiting_riders) > 0
        THEN [w |-> [w1 EXCEPT !.waiting_riders = Tail(@)],
              result |-> Head(w1.waiting_riders)]
        ELSE [w |-> w, result |-> None]

\* Mutant: the driver is registered at every request.
request_rider_registers_again(w, d) ==
    LET w1 == [w EXCEPT !.drivers = Append(@, d)]
    IN  IF Len(w1.waiting_riders) > 0
        THEN [w |-> [w1 EXCEPT !.waiting_riders = Tail(@)],
              result |-> Head(w1.waiting_riders)]
        ELSE [w |-> w1, result |-> None]

\* Mutant: waiting_riders.pop() takes the last rider of the list.
request_rider_pops_last(w, d) ==
    LET w1 == IF d \notin Range(w.drivers)
              THEN [w EXCEPT !.drivers = Append(@, d)]
              ELSE w
        n == Len(w1.waiting_riders)
    IN  IF n > 0
        THEN [w |-> [w1 EXCEPT !.waiting_riders = SubSeq(@, 1, n - 1)],
              result |-> w1.waiting_riders[n]]
        ELSE [w |-> w1, result |-> None]

\* Mutant: waiting_riders[0] in place of waiting_riders.pop(0).
request_rider_keeps_head(w, d) ==
    LET w1 == IF d \notin Range(w.drivers)
              THEN [w EXCEPT !.drivers = Append(@, d)]
              ELSE w
    IN  IF Len(w1.waiting_riders) > 0
        THEN [w |-> w1, result |-> Head(w1.waiting_riders)]
        ELSE [w |-> w1, result |-> None]

\* request_rider(driver): [w, result].
request_rider(w, d) ==
    LET w1 == IF d \notin Range(w.drivers)
              THEN [w EXCEPT !.drivers = Append(@, d)]
              ELSE w
    IN  IF Len(w1.waiting_riders) > 0
        THEN [w |-> [w1 EXCEPT !.waiting_riders = Tail(@)],
              result |-> Head(w1.waiting_riders)]
        ELSE [w |-> w1, result |-> None]

\* list.remove(x): s without the first x.
RemoveFirst(s, x) ==
    LET i == CHOOSE i \in DOMAIN s :
                 s[i] = x /\ \A j \in 1..(i - 1) : s[j] # x
    IN  SubSeq(s, 1, i - 1) \o SubSeq(s, i + 1, Len(s))

\* cancel_ride(rider): the ValueError of a rider not on the list is caught.
\* Mutant: cancel_ride leaves the waiting list as it is.
cancel_ride_ignored(w, r) == w

cancel_ride(w, r) ==
    IF r \in Range(w.waiting_riders)
    THEN [w EXCEPT !.waiting_riders = RemoveFirst(@, r)]
    ELSE w

(***************************************************************************)
(* event.py: the five events.  An event is [kind, timestamp, rider,        *)
(* driver]; do() gives [w, out, raised]: the state it leaves, the list it  *)
(* returns, and the exception that leaves it (None when it returns).       *)
(***************************************************************************)
RiderRequest(t, r) ==
    [kind |-> "RiderRequest", timestamp |-> t, rider |-> r, driver |-> None]

DriverRequest(t, d) ==
    [kind |-> "DriverRequest", timestamp |-> t, rider |-> None, driver |-> d]

Cancellation(t, r) ==
    [kind |-> "Cancellation", timestamp |-> t, rider |-> r, driver |-> None]

Pickup(t, r, d) ==
    [kind |-> "Pickup", timestamp |-> t, rider |-> r, driver |-> d]

Dropoff(t, d, r) ==
    [kind |-> "Dropoff", timestamp |-> t, rider |-> r, driver |-> d]

\* Mutant: the cancellation is scheduled only when no driver was found.
RiderRequest_do_cancellation_unless_matched(w, e) ==
    LET r == e.rider
        w1 == [w EXCEPT !.activities =
                  notify(@, e.timestamp, RIDER, REQUEST, r, w.rider[r].origin)]
        rq == request_driver(w1, r)
        d == rq.result
        w2 == [rq.w EXCEPT !.driver[d] = start_drive(@, rq.w.rider[r].origin)]
        travel_time == get_travel_time(w2.driver[d], w2.rider[r].origin)
        cancellation == Cancellation(e.timestamp + w.rider[r].patience, r)
    IN  IF d # None
        THEN [w |-> w2, out |-> <<Pickup(e.timestamp + travel_time, r, d)>>,
              raised |-> None]
        ELSE [w |-> rq.w, out |-> <<cancellation>>, raised |-> None]

\* Mutant: the cancellation is put ahead of the pickup in the list returned.
RiderRequest_do_cancellation_first(w, e) ==
    LET r == e.rider
        w1 == [w EXCEPT !.activities =
                  notify(@, e.timestamp, RIDER, REQUEST, r, w.rider[r].origin)]
        rq == request_driver(w1, r)
        d == rq.result
        w2 == [rq.w EXCEPT !.driver[d] = start_drive(@, rq.w.rider[r].origin)]
        travel_time == get_travel_time(w2.driver[d], w2.rider[r].origin)
        cancellation == Cancellation(e.timestamp + w.rider[r].patience, r)
    IN  IF rq.raised
        THEN [w |-> rq.w, out |-> <<>>, raised |-> "AttributeError"]
        ELSE IF d # None
        THEN [w |-> w2,
              out |-> <<cancellation, Pickup(e.timestamp + travel_time, r, d)>>,
              raised |-> None]
        ELSE [w |-> rq.w, out |-> <<cancellation>>, raised |-> None]

\* Mutant: no cancellation is scheduled; the rider has all the patience.
RiderRequest_do_never_cancels(w, e) ==
    LET r == e.rider
        w1 == [w EXCEPT !.activities =
                  notify(@, e.timestamp, RIDER, REQUEST, r, w.rider[r].origin)]
        rq == request_driver(w1, r)
        d == rq.result
        w2 == [rq.w EXCEPT !.driver[d] = start_drive(@, rq.w.rider[r].origin)]
        travel_time == get_travel_time(w2.driver[d], w2.rider[r].origin)
    IN  IF rq.raised
        THEN [w |-> rq.w, out |-> <<>>, raised |-> "AttributeError"]
        ELSE IF d # None
        THEN [w |-> w2, out |-> <<Pickup(e.timestamp + travel_time, r, d)>>,
              raised |-> None]
        ELSE [w |-> rq.w, out |-> <<>>, raised |-> None]

RiderRequest_do(w, e) ==
    LET r == e.rider
        w1 == [w EXCEPT !.activities =
                  notify(@, e.timestamp, RIDER, REQUEST, r, w.rider[r].origin)]
        rq == request_driver(w1, r)
        d == rq.result
        w2 == [rq.w EXCEPT !.driver[d] = start_drive(@, rq.w.rider[r].origin)]
        travel_time == get_travel_time(w2.driver[d], w2.rider[r].origin)
        cancellation == Cancellation(e.timestamp + w.rider[r].patience, r)
    IN  IF rq.raised
        THEN [w |-> rq.w, out |-> <<>>, raised |-> "AttributeError"]
        ELSE IF d # None
        THEN [w |-> w2,
              out |-> <<Pickup(e.timestamp + travel_time, r, d), cancellation>>,
              raised |-> None]
        ELSE [w |-> rq.w, out |-> <<cancellation>>, raised |-> None]

\* Mutant: the Pickup is scheduled at the time of the request.
DriverRequest_do_pickup_at_once(w, e) ==
    LET d == e.driver
        w1 == [w EXCEPT !.activities =
                  notify(@, e.timestamp, DRIVER, REQUEST, d, w.driver[d].location)]
        rq == request_rider(w1, d)
        r == rq.result
        w2 == [rq.w EXCEPT !.driver[d] = start_drive(@, rq.w.rider[r].origin)]
    IN  IF r = None
        THEN [w |-> rq.w, out |-> <<>>, raised |-> None]
        ELSE [w |-> w2, out |-> <<Pickup(e.timestamp, r, d)>>, raised |-> None]

DriverRequest_do(w, e) ==
    LET d == e.driver
        w1 == [w EXCEPT !.activities =
                  notify(@, e.timestamp, DRIVER, REQUEST, d, w.driver[d].location)]
        rq == request_rider(w1, d)
        r == rq.result
        w2 == [rq.w EXCEPT !.driver[d] = start_drive(@, rq.w.rider[r].origin)]
        travel_time == get_travel_time(w2.driver[d], w2.rider[r].origin)
    IN  IF r = None
        THEN [w |-> rq.w, out |-> <<>>, raised |-> None]
        ELSE IF travel_time = AttributeError
        THEN [w |-> w2, out |-> <<>>, raised |-> "AttributeError"]
        ELSE [w |-> w2, out |-> <<Pickup(e.timestamp + travel_time, r, d)>>,
              raised |-> None]

\* Mutant: the cancellation goes through whatever the status.
cancellation_superseded_never(status) == FALSE

\* if self.rider.status == SATISFIED: return events
cancellation_superseded(status) == status = SATISFIED

\* Mutant: the monitor is notified before the status is looked at.
Cancellation_do_notifies_first(w, e) ==
    LET r == e.rider
        w0 == [w EXCEPT !.activities =
                  notify(@, e.timestamp, RIDER, CANCEL, r, w.rider[r].origin)]
        w1 == IF r \in Range(w0.waiting_riders) THEN cancel_ride(w0, r) ELSE w0
        w2 == [w1 EXCEPT !.rider[r].status = CANCELLED]
    IN  IF cancellation_superseded(w.rider[r].status)
        THEN [w |-> w0, out |-> <<>>, raised |-> None]
        ELSE [w |-> w2, out |-> <<>>, raised |-> None]

\* Mutant: the cancellation leaves the dispatcher's waiting list alone.
Cancellation_do_skips_dispatcher(w, e) ==
    LET r == e.rider
        w2 == [w EXCEPT !.rider[r].status = CANCELLED]
        w3 == [w2 EXCEPT !.activities =
                  notify(@, e.timestamp, RIDER, CANCEL, r, w.rider[r].origin)]
    IN  IF cancellation_superseded(w.rider[r].status)
        THEN [w |-> w, out |-> <<>>, raised |-> None]
        ELSE [w |-> w3, out |-> <<>>, raised |-> None]

Cancellation_do(w, e) ==
    LET r == e.rider
        w1 == IF r \in Range(w.waiting_riders) THEN cancel_ride(w, r) ELSE w
        w2 == [w1 EXCEPT !.rider[r].status = CANCELLED]
        w3 == [w2 EXCEPT !.activities =
                  notify(@, e.timestamp, RIDER, CANCEL, r, w.rider[r].origin)]
    IN  IF cancellation_superseded(w.rider[r].status)
        THEN [w |-> w, out |-> <<>>, raised |-> None]
        ELSE [w |-> w3, out |-> <<>>, raised |-> None]

\* Mutant: the pickup does not look for a cancelled rider.
PickupBranch_ignores_cancel(status) ==
    IF status \in {WAITING, CANCELLED} THEN "ride" ELSE "none"

\* The branch Pickup.do takes on the rider's status; with neither it falls
\* off the end and returns None.
PickupBranch(status) ==
    IF status = WAITING THEN "ride"
    ELSE IF status = CANCELLED THEN "request"
    ELSE "none"

Pickup_do(w, e) ==
    LET r == e.rider
        d == e.driver
        w1 == [w EXCEPT !.driver[d] = end_drive(@)]
        \* rider.status == "waiting"
        w2 == [w1 EXCEPT !.driver[d] = start_ride(@, w.rider[r])]
        travel_time == get_travel_time(w2.driver[d], w.rider[r].destination)
        w3 == [w2 EXCEPT !.rider[r].status = SATISFIED]
        w4 == [w3 EXCEPT !.activities =
                  notify(notify(@, e.timestamp, DRIVER, PICKUP, d,
                                w3.driver[d].location),
                         e.timestamp, RIDER, PICKUP, r, w.rider[r].origin)]
        \* rider.status == "cancelled"
        w5 == [w1 EXCEPT !.activities =
                  notify(@, e.timestamp, DRIVER, REQUEST, d, w1.driver[d].location)]
        branch == PickupBranch(w.rider[r].status)
    IN  IF branch = "ride"
        THEN IF travel_time = AttributeError
             THEN [w |-> w2, out |-> <<>>, raised |-> "AttributeError"]
             ELSE [w |-> w4, out |-> <<Dropoff(e.timestamp + travel_time, d, r)>>,
                   raised |-> None]
        ELSE IF branch = "request"
        THEN [w |-> w5, out |-> <<DriverRequest(e.timestamp, d)>>, raised |-> None]
        \* do() returned None: run() raises TypeError on len(None)
        ELSE [w |-> w1, out |-> <<>>, raised |-> "TypeError"]

\* Mutant: the driver dropped the rider off and asks for no other.
Dropoff_do_no_request(w, e) ==
    LET r == e.rider
        d == e.driver
        w1 == [w EXCEPT !.driver[d] = end_ride(@)]
        w2 == [w1 EXCEPT !.activities =
                  notify(notify(@,
                      e.timestamp, DRIVER, DROPOFF, d, w1.driver[d].location),
                      e.timestamp, RIDER, DROPOFF, r, w.rider[r].destination)]
    IN  [w |-> w2, out |-> <<>>, raised |-> None]

\* Mutant: the drop-off is logged for the rider only.
Dropoff_do_logs_rider_only(w, e) ==
    LET r == e.rider
        d == e.driver
        w1 == [w EXCEPT !.driver[d] = end_ride(@)]
        w2 == [w1 EXCEPT !.activities =
                  notify(notify(@,
                      e.timestamp, RIDER, DROPOFF, r, w.rider[r].destination),
                      e.timestamp, DRIVER, REQUEST, d, w1.driver[d].location)]
    IN  [w |-> w2, out |-> <<DriverRequest(e.timestamp, d)>>, raised |-> None]

Dropoff_do(w, e) ==
    LET r == e.rider
        d == e.driver
        w1 == [w EXCEPT !.driver[d] = end_ride(@)]
        w2 == [w1 EXCEPT !.activities =
                  notify(notify(notify(@,
                      e.timestamp, DRIVER, DROPOFF, d, w1.driver[d].location),
                      e.timestamp, RIDER, DROPOFF, r, w.rider[r].destination),
                      e.timestamp, DRIVER, REQUEST, d, w1.driver[d].location)]
    IN  [w |-> w2, out |-> <<DriverRequest(e.timestamp, d)>>, raised |-> None]

(***************************************************************************)
(* simulation.py: Simulation.run.                                          *)
(***************************************************************************)
\* for event in next_events: self._events.add(event)
RECURSIVE AddAll(_, _)
AddAll(items, new) ==
    IF new = <<>> THEN items
    ELSE AddAll(PQAdd(items, Head(new)), Tail(new))

\* The for loop over initial_events is over and the while loop runs.
\* Mutant: the while loop starts before the for loop has added every initial
\* event.
InLoop_before_all_added == pc = "run"

InLoop == pc = "run" /\ initial_events = <<>>

\* One pass of the while loop whose removed event gave the result r.
LoopPass(e, r) ==
    /\ drivers' = r.w.drivers
    /\ waiting_riders' = r.w.waiting_riders
    /\ rider' = r.w.rider
    /\ driver' = r.w.driver
    /\ activities' = r.w.activities
    /\ call' = [op |-> e.kind, arg |-> <<e>>]
    /\ ret' = r.out
    /\ removed' = Append(removed, e)
    /\ IF r.raised # None
       THEN /\ pc' = r.raised
            /\ events' = Tail(events)
       ELSE /\ pc' = pc
            /\ events' = AddAll(Tail(events), r.out)
    /\ UNCHANGED initial_events

run_add ==
    /\ pc = "run"
    /\ initial_events # <<>>
    /\ events' = PQAdd(events, Head(initial_events))
    /\ initial_events' = Tail(initial_events)
    /\ call' = [op |-> "add", arg |-> <<Head(initial_events)>>]
    /\ UNCHANGED <<drivers, waiting_riders, rider, driver, activities, pc,
                   ret, removed>>

run_RiderRequest ==
    /\ InLoop /\ ~is_empty(events) /\ Head(events).kind = "RiderRequest"
    /\ LoopPass(Head(events), RiderRequest_do(World, Head(events)))

run_DriverRequest ==
    /\ InLoop /\ ~is_empty(events) /\ Head(events).kind = "DriverRequest"
    /\ LoopPass(Head(events), DriverRequest_do(World, Head(events)))

run_Cancellation ==
    /\ InLoop /\ ~is_empty(events) /\ Head(events).kind = "Cancellation"
    /\ LoopPass(Head(events), Cancellation_do(World, Head(events)))

run_Pickup ==
    /\ InLoop /\ ~is_empty(events) /\ Head(events).kind = "Pickup"
    /\ LoopPass(Head(events), Pickup_do(World, Head(events)))

run_Dropoff ==
    /\ InLoop /\ ~is_empty(events) /\ Head(events).kind = "Dropoff"
    /\ LoopPass(Head(events), Dropoff_do(World, Head(events)))

run_return ==
    /\ InLoop /\ is_empty(events)
    /\ pc' = "done"
    /\ call' = [op |-> "return", arg |-> <<>>]
    /\ UNCHANGED <<events, initial_events, drivers, waiting_riders, rider,
                   driver, activities, ret, removed>>

(***************************************************************************)
(* Spec: Simulation.run on a list of initial events as create_event_list   *)
(* builds them: at most one RiderRequest for a rider and one DriverRequest *)
(* for a driver (distinct ids), riders waiting, drivers without a          *)
(* destination.  Riders, and drivers, are interchangeable, so the list     *)
(* names r1 before r2 and d1 before d2.                                    *)
(***************************************************************************)
RiderOrder == <<"r1", "r2">>
DriverOrder == <<"d1", "d2">>

RiderIds == Range(RiderOrder)
DriverIds == Range(DriverOrder)

Times == 0..MaxTime
Patiences == 0..MaxPatience

\* Where riders start, where they go and where drivers start: drives and
\* rides of 0, 1 and 2 time units at the drivers' speed.
Origins == {<<0, 0>>, <<0, 1>>}
Destinations == {<<0, 1>>, <<1, 1>>}
DriverLocations == {<<0, 0>>, <<1, 1>>}
Speeds == {1}

\* The ways to merge the sequences a and b, each keeping its order.
RECURSIVE Interleavings(_, _)
Interleavings(a, b) ==
    IF a = <<>> THEN {b}
    ELSE IF b = <<>> THEN {a}
    ELSE {<<Head(a)>> \o o : o \in Interleavings(Tail(a), b)}
         \cup {<<Head(b)>> \o o : o \in Interleavings(a, Tail(b))}

Orders ==
    UNION {Interleavings(SubSeq(RiderOrder, 1, nr), SubSeq(DriverOrder, 1, nd)) :
              nr \in 0..Len(RiderOrder), nd \in 0..Len(DriverOrder)}

InitialEvent(id, t) ==
    IF id \in RiderIds THEN RiderRequest(t, id) ELSE DriverRequest(t, id)

Init ==
    /\ events = <<>>
    /\ \E order \in Orders :
          /\ \E t \in [DOMAIN order -> Times] :
                initial_events = [i \in DOMAIN order |-> InitialEvent(order[i], t[i])]
          /\ rider \in [Range(order) \cap RiderIds ->
                           [status : {WAITING}, patience : Patiences,
                            origin : Origins, destination : Destinations]]
          /\ driver \in [Range(order) \cap DriverIds ->
                            [location : DriverLocations, speed : Speeds,
                             destination : {NoLoc}]]
    /\ drivers = <<>>
    /\ waiting_riders = <<>>
    /\ activities = [c \in {RIDER, DRIVER} |->
                        [i \in (IF c = RIDER THEN DOMAIN rider ELSE DOMAIN driver)
                            |-> <<>>]]
    /\ pc = "run"
    /\ call = NoCall
    /\ ret = <<>>
    /\ removed = <<>>

Next ==
    \/ run_add
    \/ run_RiderRequest
    \/ run_DriverRequest
    \/ run_Cancellation
    \/ run_Pickup
    \/ run_Dropoff
    \/ run_return

Spec == Init /\ [][Next]_vars

\* The step is a pass of run()'s loop on an event of this kind.
Processes(kind) == removed' # removed /\ call'.op = kind

\* The event the step processes (the step made the call).
Processed == call'.arg[1]

\* The event the last step processed.
LastEvent == call.arg[1]

\* C3: a Pickup(t2, rider, driver) processed when the rider is already
\* cancelled leaves the rider cancelled, starts no ride (the driver has no
\* destination afterwards and no Dropoff is emitted) and emits exactly one
\* event, DriverRequest(t2, driver).
C3_LatePickupReissuesDriver ==
    [][ (Processes("Pickup") /\ rider[Processed.rider].status = CANCELLED) =>
           /\ rider'[Processed.rider].status = CANCELLED
           /\ driver'[Processed.driver].destination = NoLoc
           /\ ret' = <<DriverRequest(Processed.timestamp, Processed.driver)>>
           /\ pc' = "run"
      ]_vars

\* A Pickup found its rider cancelled by a Cancellation of an earlier time.
C3_Witness ==
    /\ call.op = "Pickup"
    /\ rider[LastEvent.rider].status = CANCELLED
    /\ \E i \in DOMAIN removed :
          /\ removed[i].kind = "Cancellation"
          /\ removed[i].rider = LastEvent.rider
          /\ removed[i].timestamp < LastEvent.timestamp
    /\ ret = <<DriverRequest(LastEvent.timestamp, LastEvent.driver)>>

\* C4: a rider's status only moves from waiting to satisfied or from waiting
\* to cancelled; a satisfied or cancelled rider keeps that status.
C4_RiderStatusTerminal ==
    [][ \A r \in DOMAIN rider :
           rider'[r].status # rider[r].status =>
              /\ rider[r].status = WAITING
              /\ rider'[r].status \in {SATISFIED, CANCELLED}
      ]_vars

\* The run is over with one rider satisfied, whose Cancellation was
\* processed after the Pickup, and the other cancelled, whose Pickup was
\* processed after the Cancellation.
C4_Witness ==
    /\ pc = "done"
    /\ \E r1, r2 \in DOMAIN rider :
          /\ rider[r1].status = SATISFIED
          /\ rider[r2].status = CANCELLED
          /\ \E i, j, k, l \in DOMAIN removed :
                /\ i < j /\ k < l
                /\ removed[i].kind = "Pickup" /\ removed[i].rider = r1
                /\ removed[j].kind = "Cancellation" /\ removed[j].rider = r1
                /\ removed[k].kind = "Cancellation" /\ removed[k].rider = r2
                /\ removed[l].kind = "Pickup" /\ removed[l].rider = r2

\* The Pickup and Dropoff events of the queue that name driver d.
PendingArrivals(d) ==
    {i \in DOMAIN events :
        events[i].kind \in {"Pickup", "Dropoff"} /\ events[i].driver = d}

\* C5: between two event transitions a driver's destination is set if and
\* only if exactly one Pickup or Dropoff naming the driver is pending in the
\* queue, and there are never two of them.
C5_DestinationIffArrivalPending ==
    \A d \in DOMAIN driver :
        /\ Cardinality(PendingArrivals(d)) <= 1
        /\ driver[d].destination # NoLoc <=> Cardinality(PendingArrivals(d)) = 1

\* One driver is on a ride with its Dropoff pending, the other has been
\* sent back by a cancelled rider and is idle with its DriverRequest pending.
C5_Witness ==
    \E d1, d2 \in DOMAIN driver :
        /\ driver[d1].destination # NoLoc
        /\ \E i \in PendingArrivals(d1) : events[i].kind = "Dropoff"
        /\ driver[d2].destination = NoLoc
        /\ \E i \in DOMAIN events :
              events[i].kind = "DriverRequest" /\ events[i].driver = d2
        /\ \E i \in DOMAIN removed :
              removed[i].kind = "Pickup" /\ removed[i].driver = d2

\* C6: whenever a DriverRequest is processed its driver is idle, and no
\* RiderRequest is queued ahead of the DriverRequest that a Pickup or a
\* Dropoff emitted for a registered driver, so no rider request can take the
\* driver before it asks again.
C6_DriverRequestFindsDriverIdle ==
    /\ [][ Processes("DriverRequest") => is_idle(driver[Processed.driver]) ]_vars
    /\ [](\A i, j \in DOMAIN events :
             (/\ i < j
              /\ events[j].kind = "DriverRequest"
              /\ events[j].driver \in Range(drivers)) =>
                 events[i].kind # "RiderRequest")

\* A DriverRequest emitted by a Dropoff was processed while a rider waited,
\* and sent the driver to that rider.
C6_Witness ==
    /\ call.op = "DriverRequest"
    /\ Len(removed) >= 2
    /\ removed[Len(removed) - 1].kind = "Dropoff"
    /\ removed[Len(removed) - 1].driver = LastEvent.driver
    /\ Len(ret) = 1
    /\ driver[LastEvent.driver].destination # NoLoc

(***************************************************************************)
(* SpecPQ: add() and remove() called in any order on one PriorityQueue.    *)
(* An item is an event with its timestamp and kind; seq numbers the add()  *)
(* calls and stands for the identity of the Python object.                 *)
(***************************************************************************)
IdleRest ==
    /\ initial_events = <<>>
    /\ drivers = <<>>
    /\ waiting_riders = <<>>
    /\ rider = <<>>
    /\ driver = <<>>
    /\ activities = <<>>

\* The number of add() calls made so far.
Added == Len(events) + Len(removed)

PQInit ==
    /\ events = <<>>
    /\ removed = <<>>
    /\ pc = "pq"
    /\ call = NoCall
    /\ ret = <<>>
    /\ IdleRest

PQ_add ==
    /\ Added < MaxAdds
    /\ \E ts \in 0..MaxPrio, k \in EventKinds :
          LET item == [timestamp |-> ts, kind |-> k, seq |-> Added + 1]
          IN  /\ events' = PQAdd(events, item)
              /\ call' = [op |-> "add", arg |-> <<item>>]
    /\ ret' = <<>>
    /\ UNCHANGED <<pc, removed, initial_events, drivers, waiting_riders, rider,
                   driver, activities>>

PQ_remove ==
    /\ events' = RemoveRest(events)
    /\ ret' = RemoveResult(events)
    /\ removed' = IF is_empty(events) THEN removed
                  ELSE Append(removed, Head(events))
    /\ call' = [op |-> "remove", arg |-> <<>>]
    /\ UNCHANGED <<pc, initial_events, drivers, waiting_riders, rider,
                   driver, activities>>

PQNext == PQ_add \/ PQ_remove

SpecPQ == PQInit /\ [][PQNext]_vars

Sorted(items) ==
    \A i \in 1..(Len(items) - 1) : Le(items[i], items[i + 1])

Count(items, x) == Cardinality({i \in DOMAIN items : items[i] = x})

\* items holds what before held, and x once more.
AddsExactly(before, items, x) ==
    \A y \in Range(before) \cup Range(items) \cup {x} :
        Count(items, y) = Count(before, y) + (IF y = x THEN 1 ELSE 0)

InAddOrder(a, b) == a.timestamp = b.timestamp => a.seq < b.seq

\* C2: two elements that compare equal (equal timestamps, whatever their
\* kinds) leave the queue in the order in which they were added: equal
\* elements are stored in that order, were removed in that order, and none
\* was removed before an equal element still stored.
C2_FifoAmongEqual ==
    /\ \A i, j \in DOMAIN events : i < j => InAddOrder(events[i], events[j])
    /\ \A i, j \in DOMAIN removed : i < j => InAddOrder(removed[i], removed[j])
    /\ \A i \in DOMAIN removed, j \in DOMAIN events :
           InAddOrder(removed[i], events[j])

\* Two events of different kinds and one timestamp were added around an
\* earlier-stamped one and have both been removed.
C2_Witness ==
    /\ Len(removed) = 3
    /\ removed[2].timestamp = removed[3].timestamp
    /\ removed[2].kind # removed[3].kind
    /\ removed[2].seq = 1
    /\ removed[1].seq = 2

(***************************************************************************)
(* SpecDriver: the methods of one Driver called in any order, also when    *)
(* their preconditions do not hold.  pc is "ok" when the last call         *)
(* returned and the name of the exception when it raised.                  *)
(***************************************************************************)
Grid == {<<row, column>> : row \in 0..GridMax, column \in 0..GridMax}

DriverSpeeds == 1..MaxSpeed

NoQueue ==
    /\ events = <<>>
    /\ initial_events = <<>>
    /\ removed = <<>>
    /\ activities = <<>>

DrvInit ==
    /\ driver \in [{"d1"} -> [location : Grid, speed : DriverSpeeds,
                              destination : {NoLoc}]]
    /\ rider = <<>>
    /\ drivers = <<>>
    /\ waiting_riders = <<>>
    /\ pc = "ok"
    /\ call = NoCall
    /\ ret = <<>>
    /\ NoQueue

\* A call that returns the travel time t, or raises when there is none.
DrvReturns(t) ==
    /\ ret' = IF t = AttributeError THEN <<>> ELSE <<t>>
    /\ pc' = IF t = AttributeError THEN "AttributeError" ELSE "ok"

DrvFrame == UNCHANGED <<events, initial_events, removed, activities, rider,
                        drivers, waiting_riders>>

\* Destinations off the grid that get_travel_time is asked about: (5,8) of
\* its doctest, and one that is 3 to 7 units away from the grid.
FarLocations == {<<5, 8>>, <<3, 4>>}

drv_get_travel_time ==
    /\ \E destination \in Grid \cup FarLocations :
          /\ call' = [op |-> "get_travel_time", arg |-> <<destination>>]
          /\ DrvReturns(get_travel_time(driver["d1"], destination))
    /\ UNCHANGED driver
    /\ DrvFrame

drv_start_drive ==
    /\ \E location \in Grid :
          /\ driver' = [driver EXCEPT !["d1"] = start_drive(@, location)]
          /\ call' = [op |-> "start_drive", arg |-> <<location>>]
          /\ DrvReturns(get_travel_time(driver'["d1"], location))
    /\ DrvFrame

drv_end_drive ==
    /\ driver' = [driver EXCEPT !["d1"] = end_drive(@)]
    /\ call' = [op |-> "end_drive", arg |-> <<>>]
    /\ ret' = <<>>
    /\ pc' = "ok"
    /\ DrvFrame

drv_start_ride ==
    /\ \E destination \in Grid :
          LET rd == [status |-> WAITING, patience |-> 0,
                     origin |-> driver["d1"].location,
                     destination |-> destination]
          IN  /\ driver' = [driver EXCEPT !["d1"] = start_ride(@, rd)]
              /\ call' = [op |-> "start_ride", arg |-> <<destination>>]
              /\ DrvReturns(get_travel_time(driver'["d1"], destination))
    /\ DrvFrame

drv_end_ride ==
    /\ driver' = [driver EXCEPT !["d1"] = end_ride(@)]
    /\ call' = [op |-> "end_ride", arg |-> <<>>]
    /\ ret' = <<>>
    /\ pc' = "ok"
    /\ DrvFrame

DrvNext ==
    \/ drv_get_travel_time
    \/ drv_start_drive
    \/ drv_end_drive
    \/ drv_start_ride
    \/ drv_end_ride

SpecDriver == DrvInit /\ [][DrvNext]_vars

\* C7: end_drive() or end_ride() on a driver whose destination is not set
\* aborts with an error and leaves the driver as it was; it does not put an
\* unset value in the driver's location.
C7_EndWithoutDestinationIsFatal ==
    [][ (/\ call'.op \in {"end_drive", "end_ride"}
         /\ driver["d1"].destination = NoLoc) =>
            /\ pc' # "ok"
            /\ driver' = driver
            /\ driver'["d1"].location # NoLoc
      ]_vars

(***************************************************************************)
(* SpecDisp: request_driver, request_rider and cancel_ride called in any   *)
(* order on one Dispatcher, for riders and drivers of any status, while    *)
(* the drivers start and end drives as the events make them.               *)
(***************************************************************************)
DispRiders == {"r1", "r2"}
DispDrivers == {"d1", "d2"}

\* The places of SpecDisp: a rider between two drivers is as far from both.
Places == {<<0, 0>>, <<0, 1>>, <<0, 2>>}

DispInit ==
    /\ drivers = <<>>
    /\ waiting_riders = <<>>
    /\ rider \in [DispRiders -> [status : {CANCELLED}, patience : {0},
                                 origin : Origins, destination : {<<0, 0>>}]]
    /\ driver \in [DispDrivers -> [location : Places, speed : DriverSpeeds,
                                   destination : {NoLoc}]]
    /\ pc = "ok"
    /\ call = NoCall
    /\ ret = <<>>
    /\ NoQueue

DispFrame == UNCHANGED <<events, initial_events, removed, activities, pc>>

disp_request_driver ==
    /\ Len(waiting_riders) < MaxWaiting
    /\ \E r \in DOMAIN rider :
          LET rq == request_driver(World, r)
          IN  /\ ~rq.raised
              /\ waiting_riders' = rq.w.waiting_riders
              /\ rider' = rq.w.rider
              /\ drivers' = rq.w.drivers
              /\ driver' = rq.w.driver
              /\ call' = [op |-> "request_driver", arg |-> <<r>>]
              /\ ret' = IF rq.result = None THEN <<>> ELSE <<rq.result>>
    /\ DispFrame

disp_request_rider ==
    /\ \E d \in DOMAIN driver :
          LET rq == request_rider(World, d)
          IN  /\ waiting_riders' = rq.w.waiting_riders
              /\ rider' = rq.w.rider
              /\ drivers' = rq.w.drivers
              /\ driver' = rq.w.driver
              /\ call' = [op |-> "request_rider", arg |-> <<d>>]
              /\ ret' = IF rq.result = None THEN <<>> ELSE <<rq.result>>
    /\ DispFrame

disp_cancel_ride ==
    /\ \E r \in DOMAIN rider :
          LET w == cancel_ride(World, r)
          IN  /\ waiting_riders' = w.waiting_riders
              /\ rider' = w.rider
              /\ drivers' = w.drivers
              /\ driver' = w.driver
              /\ call' = [op |-> "cancel_ride", arg |-> <<r>>]
              /\ ret' = <<>>
    /\ DispFrame

\* A driver is sent to a rider's origin (RiderRequest.do, DriverRequest.do).
disp_start_drive ==
    /\ \E d \in DOMAIN driver, r \in DOMAIN rider :
          /\ is_idle(driver[d])
          /\ driver' = [driver EXCEPT ![d] = start_drive(@, rider[r].origin)]
          /\ call' = [op |-> "start_drive", arg |-> <<d>>]
    /\ ret' = <<>>
    /\ UNCHANGED <<drivers, waiting_riders, rider>>
    /\ DispFrame

\* A driver arrives (Pickup.do).
disp_end_drive ==
    /\ \E d \in DOMAIN driver :
          /\ ~is_idle(driver[d])
          /\ driver' = [driver EXCEPT ![d] = end_drive(@)]
          /\ call' = [op |-> "end_drive", arg |-> <<d>>]
    /\ ret' = <<>>
    /\ UNCHANGED <<drivers, waiting_riders, rider>>
    /\ DispFrame

DispNext ==
    \/ disp_request_driver
    \/ disp_request_rider
    \/ disp_cancel_ride
    \/ disp_start_drive
    \/ disp_end_drive

SpecDisp == DispInit /\ [][DispNext]_vars

NoDuplicates(s) == \A i, j \in DOMAIN s : s[i] = s[j] => i = j

\* C8: after any sequence of request_driver, request_rider and cancel_ride
\* calls no rider appears in the waiting list more than once.
C8_NoRiderTwiceAfterAnyCalls == NoDuplicates(waiting_riders)

\* The place of driver d in the registry.
Registered(d) == CHOOSE i \in DOMAIN drivers : drivers[i] = d

\* The registered drivers that are idle.
IdleRegistered == {d \in Range(drivers) : is_idle(driver[d])}

\* C9: request_driver(rider) returns a driver exactly when a registered
\* driver is idle; the driver is registered and idle, no idle registered
\* driver has a smaller travel time to the rider's origin, and those with
\* the same travel time were registered later.
C9_FastestIdleDriverEarliestRegistered ==
    [][ call'.op = "request_driver" =>
          LET r == call'.arg[1]
              time(d) == get_travel_time(driver[d], rider[r].origin)
          IN  /\ ret' = <<>> <=> IdleRegistered = {}
              /\ ret' # <<>> =>
                    /\ ret'[1] \in IdleRegistered
                    /\ \A d \in IdleRegistered \ {ret'[1]} :
                          \/ time(ret'[1]) < time(d)
                          \/ /\ time(ret'[1]) = time(d)
                             /\ Registered(ret'[1]) < Registered(d)
      ]_vars

\* d2, registered first, was returned though d1 is idle and as fast.
C9_Witness ==
    /\ call.op = "request_driver"
    /\ ret = <<"d2">>
    /\ drivers = <<"d2", "d1">>
    /\ is_idle(driver["d1"])
    /\ get_travel_time(driver["d1"], rider[call.arg[1]].origin)
         = get_travel_time(driver["d2"], rider[call.arg[1]].origin)
    /\ driver["d1"].location # driver["d2"].location

\* C10: request_driver(rider) called when no registered driver is idle (or
\* none is registered) returns nothing, sets the rider's status to waiting,
\* appends the rider at the tail of the waiting list and leaves the registry
\* and the drivers unchanged.
C10_NoIdleDriverPutsRiderLast ==
    [][ (call'.op = "request_driver" /\ IdleRegistered = {}) =>
           /\ ret' = <<>>
           /\ rider'[call'.arg[1]].status = WAITING
           /\ rider' = [rider EXCEPT ![call'.arg[1]].status = WAITING]
           /\ waiting_riders' = Append(waiting_riders, call'.arg[1])
           /\ drivers' = drivers
           /\ driver' = driver
      ]_vars

\* A rider went behind another on the list while both registered drivers
\* were driving.
C10_Witness ==
    /\ call.op = "request_driver"
    /\ ret = <<>>
    /\ Len(drivers) = 2
    /\ Len(waiting_riders) = 2
    /\ waiting_riders[2] = call.arg[1]
    /\ waiting_riders[1] # call.arg[1]
    /\ rider[call.arg[1]].status = WAITING

\* C11: request_rider(driver) called with an empty waiting list returns
\* nothing, registers the driver if it was not registered (and only then),
\* leaves the waiting list empty and every driver as it was, so an idle
\* driver stays idle.
C11_NoWaitingRiderStillRegisters ==
    [][ (call'.op = "request_rider" /\ waiting_riders = <<>>) =>
           LET d == call'.arg[1]
           IN  /\ ret' = <<>>
               /\ d \in Range(drivers')
               /\ drivers' = IF d \in Range(drivers) THEN drivers
                             ELSE Append(drivers, d)
               /\ waiting_riders' = <<>>
               /\ driver' = driver
               /\ is_idle(driver[d]) => is_idle(driver'[d])
      ]_vars

\* An idle driver asked with no rider waiting and is the second driver of
\* the registry.
C11_Witness ==
    /\ call.op = "request_rider"
    /\ ret = <<>>
    /\ waiting_riders = <<>>
    /\ Len(drivers) = 2
    /\ drivers[2] = call.arg[1]
    /\ is_idle(driver[call.arg[1]])

\* s is the beginning of t.
IsPrefix(s, t) == Len(s) <= Len(t) /\ SubSeq(t, 1, Len(s)) = s

\* C12: after any sequence of Dispatcher operations the registry holds each
\* driver at most once; it only grows, at its end, by the driver of a
\* request_rider call that was not registered (order of first request); a
\* registered driver is never removed, and request_rider for a registered
\* driver leaves the registry as it is.
C12_RegistrationIdempotentPermanent ==
    [][ /\ NoDuplicates(drivers')
        /\ IsPrefix(drivers, drivers')
        /\ call'.op = "request_rider" =>
              drivers' = IF call'.arg[1] \in Range(drivers) THEN drivers
                         ELSE Append(drivers, call'.arg[1])
        /\ call'.op # "request_rider" => drivers' = drivers
      ]_vars

\* The driver registered first asked again after the other was registered.
C12_Witness ==
    /\ call.op = "request_rider"
    /\ Len(drivers) = 2
    /\ drivers[1] = call.arg[1]
    /\ NoDuplicates(drivers)

\* C13: request_rider(driver) with a non-empty waiting list removes and
\* returns the head of the list, whatever the distances: the riders behind it
\* keep their order and are handed out after it.
C13_HeadOfWaitingListFirst ==
    [][ (call'.op = "request_rider" /\ waiting_riders # <<>>) =>
           /\ ret' = <<Head(waiting_riders)>>
           /\ waiting_riders' = Tail(waiting_riders)
      ]_vars

\* The driver was handed the head of the list though the rider behind it is
\* nearer to the driver.
C13_Witness ==
    /\ call.op = "request_rider"
    /\ Len(ret) = 1
    /\ Len(waiting_riders) = 1
    /\ waiting_riders[1] # ret[1]
    /\ get_travel_time(driver[call.arg[1]], rider[waiting_riders[1]].origin)
         < get_travel_time(driver[call.arg[1]], rider[ret[1]].origin)

\* C14: cancel_ride(rider) raises nothing and leaves the registry as it is;
\* for a rider who is not on the waiting list it leaves the list as it is;
\* for a rider on the list it leaves the list without that rider and the
\* other riders in the order they had.
C14_CancelRideRemovesOrIgnores ==
    [][ call'.op = "cancel_ride" =>
           LET r == call'.arg[1]
               others(s) == SelectSeq(s, LAMBDA x : x # r)
           IN  /\ pc' = "ok"
               /\ drivers' = drivers
               /\ r \notin Range(waiting_riders) =>
                     waiting_riders' = waiting_riders
               /\ r \in Range(waiting_riders) =>
                     /\ r \notin Range(waiting_riders')
                     /\ others(waiting_riders') = others(waiting_riders)
      ]_vars

(***************************************************************************)
(* The five transitions of Simulation.run (under Spec).                    *)
(***************************************************************************)
\* C15: a Cancellation processed for a rider whose status is satisfied
\* changes nothing: the riders, the waiting list, the registry, the drivers
\* and the monitor's log are as before and no event is emitted.
C15_CancellationOfSatisfiedIsNoOp ==
    [][ (Processes("Cancellation") /\ rider[Processed.rider].status = SATISFIED) =>
           /\ rider' = rider
           /\ waiting_riders' = waiting_riders
           /\ drivers' = drivers
           /\ driver' = driver
           /\ activities' = activities
           /\ ret' = <<>>
           /\ events' = Tail(events)
           /\ pc' = "run"
      ]_vars

\* The Cancellation of a rider who is on a ride was processed: the rider is
\* satisfied and the Dropoff is still in the queue.
C15_Witness ==
    /\ call.op = "Cancellation"
    /\ rider[LastEvent.rider].status = SATISFIED
    /\ \E i \in DOMAIN events :
          events[i].kind = "Dropoff" /\ events[i].rider = LastEvent.rider
    /\ ret = <<>>

\* C16: a RiderRequest(t, rider) processed always emits
\* Cancellation(t + patience, rider); it emits one more event,
\* Pickup(t + travelTime, rider, driver), exactly when a registered driver is
\* idle (request_driver returns one), and then that driver's destination is
\* the rider's origin and travelTime is its travel time from where it is to
\* the rider's origin; otherwise no driver changes.
C16_RiderRequestEmits ==
    [][ Processes("RiderRequest") =>
           LET t == Processed.timestamp
               r == Processed.rider
               cancellation == Cancellation(t + rider[r].patience, r)
           IN  /\ pc' = "run"
               /\ cancellation \in Range(ret')
               /\ IF IdleRegistered = {}
                  THEN /\ ret' = <<cancellation>>
                       /\ driver' = driver
                  ELSE \E d \in IdleRegistered :
                          LET travelTime ==
                                 get_travel_time(driver[d], rider[r].origin)
                          IN  /\ Len(ret') = 2
                              /\ Range(ret') =
                                    {Pickup(t + travelTime, r, d), cancellation}
                              /\ driver' = [driver EXCEPT
                                    ![d].destination = rider[r].origin]
      ]_vars

\* A RiderRequest found a driver one time unit or more away: the Pickup is
\* later than the request, and the Cancellation is emitted with it.
C16_Witness ==
    /\ call.op = "RiderRequest"
    /\ Len(ret) = 2
    /\ \E i, j \in DOMAIN ret :
          /\ ret[i].kind = "Pickup"
          /\ ret[i].timestamp > LastEvent.timestamp
          /\ driver[ret[i].driver].destination = rider[LastEvent.rider].origin
          /\ ret[j] = Cancellation(LastEvent.timestamp
                                     + rider[LastEvent.rider].patience,
                                   LastEvent.rider)

\* C17: a DriverRequest(t, driver) processed with a rider on the waiting list
\* emits exactly one event, Pickup(t + travelTime, rider, driver) for the
\* head of the list, and sets the driver's destination to that rider's
\* origin; with the list empty it emits nothing and leaves the driver idle
\* where it is.
C17_DriverRequestEmits ==
    [][ Processes("DriverRequest") =>
           LET t == Processed.timestamp
               d == Processed.driver
           IN  /\ pc' = "run"
               /\ IF waiting_riders # <<>>
                  THEN LET r == Head(waiting_riders)
                           travelTime ==
                              get_travel_time(driver[d], rider[r].origin)
                       IN  /\ ret' = <<Pickup(t + travelTime, r, d)>>
                           /\ driver' = [driver EXCEPT
                                 ![d].destination = rider[r].origin]
                  ELSE /\ ret' = <<>>
                       /\ driver' = driver
                       /\ is_idle(driver'[d])
      ]_vars

\* The first DriverRequest of a driver found a rider waiting one time unit
\* or more away, with another rider behind on the list.
C17_Witness ==
    /\ call.op = "DriverRequest"
    /\ Len(ret) = 1
    /\ ret[1].kind = "Pickup"
    /\ ret[1].timestamp > LastEvent.timestamp
    /\ waiting_riders # <<>>
    /\ waiting_riders[1] # ret[1].rider
    /\ \A i \in DOMAIN removed :
          removed[i].kind \in {"RiderRequest", "DriverRequest"}

\* C18: every Pickup(t, rider, driver) processed in a run emits exactly one
\* event.  The rider is waiting or cancelled.  Waiting: the event is
\* Dropoff(t + rideTime, driver, rider), rideTime the driver's travel time
\* from the rider's origin to the rider's destination, the rider becomes
\* satisfied and the driver's destination is the rider's destination.
\* Cancelled: the event is DriverRequest(t, driver).  run() goes on: no Pickup
\* emits nothing or returns no list.
C18_PickupEmitsOneEvent ==
    [][ Processes("Pickup") =>
           LET t == Processed.timestamp
               r == Processed.rider
               d == Processed.driver
               rideTime ==
                  round_div(manhattan_distance(rider[r].origin,
                                               rider[r].destination),
                            driver[d].speed)
           IN  /\ pc' = "run"
               /\ Len(ret') = 1
               /\ rider[r].status \in {WAITING, CANCELLED}
               /\ rider[r].status = WAITING =>
                     /\ ret' = <<Dropoff(t + rideTime, d, r)>>
                     /\ rider'[r].status = SATISFIED
                     /\ driver'[d].destination = rider[r].destination
               /\ rider[r].status = CANCELLED =>
                     ret' = <<DriverRequest(t, d)>>
      ]_vars

\* A Pickup started a ride of one time unit or more after an earlier Pickup
\* had found its rider cancelled.
C18_Witness ==
    /\ call.op = "Pickup"
    /\ Len(ret) = 1
    /\ ret[1].kind = "Dropoff"
    /\ ret[1].timestamp > LastEvent.timestamp
    /\ rider[LastEvent.rider].status = SATISFIED
    /\ \E i \in DOMAIN removed :
          /\ removed[i].kind = "Pickup"
          /\ removed[i].rider # LastEvent.rider
          /\ rider[removed[i].rider].status = CANCELLED

\* C19: after a Pickup(t, rider, driver) is processed the driver is at the
\* rider's origin, where end_drive put it, whether the rider was still
\* waiting (the ride starts from there) or had cancelled; the driver was on
\* its way to that origin.
C19_PickupArrivesAtOrigin ==
    [][ Processes("Pickup") =>
           /\ driver[Processed.driver].destination = rider[Processed.rider].origin
           /\ driver'[Processed.driver].location = rider[Processed.rider].origin
      ]_vars

\* A driver arrived at the origin <<0, 1>>, where no driver starts, of a
\* rider who had cancelled.
C19_Witness ==
    /\ call.op = "Pickup"
    /\ rider[LastEvent.rider].status = CANCELLED
    /\ rider[LastEvent.rider].origin = <<0, 1>>
    /\ driver[LastEvent.driver].location = <<0, 1>>
    /\ is_idle(driver[LastEvent.driver])

\* The step appends to the log of actor id, of the category, an activity of
\* this description at time t.
Logs(category, id, description, t) ==
    \E i \in DOMAIN activities'[category][id] :
        /\ i > Len(activities[category][id])
        /\ activities'[category][id][i].description = description
        /\ activities'[category][id][i].time = t

\* C20: a Dropoff(t, driver, rider) processed leaves the driver idle at the
\* rider's destination, records a DROPOFF activity for the driver and for
\* the rider, and emits exactly one event, DriverRequest(t, driver).
C20_DropoffFreesDriver ==
    [][ Processes("Dropoff") =>
           LET t == Processed.timestamp
               r == Processed.rider
               d == Processed.driver
           IN  /\ pc' = "run"
               /\ is_idle(driver'[d])
               /\ driver'[d].location = rider[r].destination
               /\ Logs(DRIVER, d, DROPOFF, t)
               /\ Logs(RIDER, r, DROPOFF, t)
               /\ ret' = <<DriverRequest(t, d)>>
      ]_vars

\* A driver dropped its rider at <<1, 1>> after a ride from another place.
C20_Witness ==
    /\ call.op = "Dropoff"
    /\ ret = <<DriverRequest(LastEvent.timestamp, LastEvent.driver)>>
    /\ is_idle(driver[LastEvent.driver])
    /\ driver[LastEvent.driver].location = <<1, 1>>
    /\ rider[LastEvent.rider].destination = <<1, 1>>
    /\ rider[LastEvent.rider].origin # <<1, 1>>
    /\ rider[LastEvent.rider].status = SATISFIED

(***************************************************************************)
(* SpecChain: Simulation.run on one RiderRequest and one DriverRequest, in *)
(* either order of the list, with the rider and the driver of the doctests *)
(* of event.py among the inputs.                                           *)
(***************************************************************************)
ChainPatiences == {0, 1, 5}
ChainOrigins == {<<1, 2>>, <<0, 1>>}
ChainDestinations == {<<5, 8>>, <<0, 0>>}
ChainDriverLocations == {<<0, 0>>, <<0, 1>>}

ChainInit ==
    /\ events = <<>>
    /\ \E tr \in Times, td \in Times :
          initial_events \in {<<RiderRequest(tr, "r1"), DriverRequest(td, "d1")>>,
                              <<DriverRequest(td, "d1"), RiderRequest(tr, "r1")>>}
    /\ rider \in [{"r1"} -> [status : {WAITING}, patience : ChainPatiences,
                             origin : ChainOrigins,
                             destination : ChainDestinations]]
    /\ driver \in [{"d1"} -> [location : ChainDriverLocations,
                              speed : DriverSpeeds, destination : {NoLoc}]]
    /\ drivers = <<>>
    /\ waiting_riders = <<>>
    /\ activities = [c \in {RIDER, DRIVER} |->
                        [i \in (IF c = RIDER THEN {"r1"} ELSE {"d1"}) |-> <<>>]]
    /\ pc = "run"
    /\ call = NoCall
    /\ ret = <<>>
    /\ removed = <<>>

SpecChain == ChainInit /\ [][Next]_vars

\* The events processed that are no Cancellation.
Chain == SelectSeq(removed, LAMBDA e : e.kind # "Cancellation")

\* Where the driver was when it first asked for a rider, as the monitor
\* logged it.
FirstLocation(d) == activities[DRIVER][d][1].location

\* C21: the rider asks at tr when no driver is registered, the driver asks
\* at td, and td + travelTime < tr + patience.  Then the run processes, in
\* this order, RiderRequest(tr), DriverRequest(td), Pickup(td + travelTime),
\* Dropoff(td + travelTime + rideTime) and DriverRequest at that same time;
\* the Cancellation(tr + patience) is processed once, after the Pickup, and
\* changes nothing: the rider ends satisfied with no CANCEL activity.
C21_SingleChain ==
    (/\ pc = "done"
     /\ removed[1].kind = "RiderRequest") =>
        LET r == "r1"
            d == "d1"
            tr == removed[1].timestamp
            td == Chain[2].timestamp
            travelTime ==
               round_div(manhattan_distance(FirstLocation(d), rider[r].origin),
                         driver[d].speed)
            rideTime ==
               round_div(manhattan_distance(rider[r].origin,
                                            rider[r].destination),
                         driver[d].speed)
            cancellation == Cancellation(tr + rider[r].patience, r)
            at(e) == CHOOSE i \in DOMAIN removed : removed[i] = e
        IN  td + travelTime < tr + rider[r].patience =>
               /\ Chain = <<RiderRequest(tr, r),
                            DriverRequest(td, d),
                            Pickup(td + travelTime, r, d),
                            Dropoff(td + travelTime + rideTime, d, r),
                            DriverRequest(td + travelTime + rideTime, d)>>
               /\ Len(removed) = 6
               /\ cancellation \in Range(removed)
               /\ at(Pickup(td + travelTime, r, d)) < at(cancellation)
               /\ rider[r].status = SATISFIED
               /\ \A i \in DOMAIN activities[RIDER][r] :
                     activities[RIDER][r][i].description # CANCEL
               /\ driver[d].location = rider[r].destination

\* The run of the doctests: the rider from (1,2) to (5,8) with patience 5
\* asks at 0, the driver at (0,0) of speed 1 asks at 1; Pickup at 4,
\* Cancellation at 5, Dropoff and DriverRequest at 14.
C21_Witness ==
    /\ pc = "done"
    /\ removed = <<RiderRequest(0, "r1"),
                   DriverRequest(1, "d1"),
                   Pickup(4, "r1", "d1"),
                   Cancellation(5, "r1"),
                   Dropoff(14, "d1", "r1"),
                   DriverRequest(14, "d1")>>
    /\ rider["r1"].status = SATISFIED

(***************************************************************************)
(* Termination and the order of time in Simulation.run (under Spec).       *)
(***************************************************************************)
\* What an event can still cause: itself and the events that follow from it.
Weight(e) ==
    CASE e.kind = "RiderRequest" -> 5
      [] e.kind = "Pickup" -> 3
      [] e.kind = "Dropoff" -> 2
      [] e.kind = "DriverRequest" -> 1
      [] e.kind = "Cancellation" -> 1

RECURSIVE SumWeights(_)
SumWeights(s) == IF s = <<>> THEN 0 ELSE Weight(Head(s)) + SumWeights(Tail(s))

\* The work run() has left: the events to add and to process, the Pickup
\* chain each waiting rider can still start, and the return.
WorkLeft ==
    SumWeights(initial_events) + Len(initial_events) + SumWeights(events)
    + 3 * Len(waiting_riders) + (IF pc = "run" THEN 1 ELSE 0)

\* C22: Simulation.run terminates.  run() never stops on an exception, every
\* step it takes lowers WorkLeft, a natural number that is 0 only when run()
\* has returned, and it returns with the event queue empty: a DriverRequest
\* emits a Pickup only by taking a rider off the waiting list, so the cycle
\* Dropoff -> DriverRequest -> Pickup stops when no rider is left on it.
C22_RunTerminates ==
    /\ [][WorkLeft' < WorkLeft]_vars
    /\ [](/\ pc \in {"run", "done"}
          /\ WorkLeft >= 0
          /\ WorkLeft = 0 <=> pc = "done"
          /\ pc = "done" => events = <<>> /\ initial_events = <<>>)

\* run() has returned after one driver took both riders, one after the
\* other.
C22_Witness ==
    /\ pc = "done"
    /\ events = <<>>
    /\ \E i, j \in DOMAIN removed :
          /\ i < j
          /\ removed[i].kind = "Dropoff"
          /\ removed[j].kind = "Dropoff"
          /\ removed[i].driver = removed[j].driver
          /\ removed[i].rider # removed[j].rider


\* C23: simulated time never goes backward: the timestamps of the events
\* run() processes form a non-decreasing sequence, and every event a
\* transition emits has a timestamp greater than or equal to that of the
\* event that emitted it.
C23_TimeNeverGoesBackward ==
    [][ removed' # removed =>
           /\ \A i, j \in DOMAIN removed' :
                 i < j => removed'[i].timestamp <= removed'[j].timestamp
           /\ \A k \in DOMAIN ret' : ret'[k].timestamp >= Processed.timestamp
      ]_vars

\* An event of time 0 emitted by a transition of time 0 was processed after
\* an initial event of time 0 that was added later in the list of a later
\* event, and before an event of time 1.
C23_Witness ==
    /\ Len(removed) >= 4
    /\ \E i, j \in DOMAIN removed :
          /\ i < j
          /\ removed[i].kind \in {"Pickup", "Cancellation"}
          /\ removed[i].timestamp = 0
          /\ removed[j].timestamp = 1
          /\ removed[j].kind \in {"RiderRequest", "DriverRequest"}
    /\ removed[Len(removed)].timestamp = 2

(***************************************************************************)
(* SpecQueue: the event queue in both of its uses, a PriorityQueue that a  *)
(* client calls in any order (pc = "pq") and the queue of Simulation.run.  *)
(***************************************************************************)
SpecQueue == (PQInit \/ Init) /\ [][(pc = "pq" /\ PQNext) \/ Next]_vars

\* C24: remove() on an empty PriorityQueue returns None (not a stored
\* element, and no exception) and leaves the queue empty; Simulation.run
\* removes an event only from a queue that is not empty, so what it removes
\* is always a stored event.
C24_RemoveOnEmpty ==
    [][ /\ (pc = "pq" /\ call'.op = "remove" /\ is_empty(events)) =>
              /\ ret' = <<>>
              /\ pc' = "pq"
              /\ is_empty(events')
              /\ removed' = removed
        /\ (pc = "run" /\ removed' # removed) =>
              /\ ~is_empty(events)
              /\ RemoveResult(events) = <<Processed>>
              /\ Processed = events[1]
      ]_vars

\* remove() was called on a queue that two earlier remove() calls emptied.
C24_Witness ==
    /\ pc = "pq"
    /\ call.op = "remove"
    /\ ret = <<>>
    /\ events = <<>>
    /\ Len(removed) = 2


(***************************************************************************)
(* SpecTie: Simulation.run on one RiderRequest and two DriverRequests in   *)
(* any order of the list, the rider at (0,1) one unit away from the first  *)
(* driver at (0,0) and one unit away from the second at (1,1).             *)
(***************************************************************************)
TieInit ==
    /\ events = <<>>
    /\ \E order \in {o \in Orders : Len(o) = 3 /\ "r2" \notin Range(o)} :
          \E t \in [DOMAIN order -> Times] :
             initial_events = [i \in DOMAIN order |-> InitialEvent(order[i], t[i])]
    /\ rider \in [{"r1"} -> [status : {WAITING}, patience : Patiences,
                             origin : {<<0, 1>>}, destination : Destinations]]
    /\ driver = [d \in DriverIds |->
                    [location |-> IF d = "d1" THEN <<0, 0>> ELSE <<1, 1>>,
                     speed |-> 1, destination |-> NoLoc]]
    /\ drivers = <<>>
    /\ waiting_riders = <<>>
    /\ activities = [c \in {RIDER, DRIVER} |->
                        [i \in (IF c = RIDER THEN {"r1"} ELSE DriverIds) |-> <<>>]]
    /\ pc = "run"
    /\ call = NoCall
    /\ ret = <<>>
    /\ removed = <<>>

SpecTie == TieInit /\ [][Next]_vars

C26_TravelTimeRounding ==
    [][ (call'.op = "get_travel_time" /\ driver["d1"].location # NoLoc) =>
           LET dist == manhattan_distance(driver["d1"].location, call'.arg[1])
               speed == driver["d1"].speed
               off == 2 * dist - 2 * ret'[1] * speed
           IN  /\ Len(ret') = 1
               /\ ret'[1] \in Nat
               /\ -speed <= off /\ off <= speed
               /\ (off = speed \/ off = -speed) => ret'[1] % 2 = 0
               /\ dist % speed = 0 => ret'[1] * speed = dist
               /\ (speed = 2 /\ dist = 5) => ret'[1] = 2
               /\ (speed = 2 /\ dist = 3) => ret'[1] = 2
               /\ (speed = 2 /\ dist = 7) => ret'[1] = 4
               /\ (speed = 1 /\ driver["d1"].location = <<0, 0>>
                     /\ call'.arg[1] = <<5, 8>>) => ret'[1] = 13
      ]_vars

\* A driver of speed 2 at (0,0) was asked for the travel time to (3,4), 7
\* units away, and answered 4.
C26_Witness ==
    /\ call.op = "get_travel_time"
    /\ call.arg[1] = <<3, 4>>
    /\ driver["d1"].location = <<0, 0>>
    /\ driver["d1"].speed = 2
    /\ ret = <<4>>

Apart(a, b) == IF a >= b THEN a - b ELSE b - a

\* C28: for all locations p and q of the grid (and the far locations),
\* manhattan_distance(p, q) = manhattan_distance(q, p) >= 0,
\* manhattan_distance(p, p) = 0, and the distance is |p.row - q.row| +
\* |p.column - q.column|; it is what a driver of speed 1 answers for its
\* travel time.
C28_ManhattanDistance ==
    [][ /\ \A p, q \in Grid \cup FarLocations :
              /\ manhattan_distance(p, q) = manhattan_distance(q, p)
              /\ manhattan_distance(p, q) >= 0
              /\ manhattan_distance(p, p) = 0
              /\ manhattan_distance(p, q) = Apart(p[1], q[1]) + Apart(p[2], q[2])
        /\ (/\ call'.op = "get_travel_time"
            /\ driver["d1"].location # NoLoc
            /\ driver["d1"].speed = 1) =>
              ret' = << Apart(driver["d1"].location[1], call'.arg[1][1])
                        + Apart(driver["d1"].location[2], call'.arg[1][2]) >>
      ]_vars

\* A driver of speed 1 at (2,0) was asked for the travel time to (0,2), two
\* rows up and two columns right, and answered 4.
C28_Witness ==
    /\ call.op = "get_travel_time"
    /\ call.arg[1] = <<0, 2>>
    /\ driver["d1"].location = <<2, 0>>
    /\ driver["d1"].speed = 1
    /\ ret = <<4>>

\* removed[i] is a Pickup and removed[j] the Cancellation of its rider, with
\* the same timestamp.
SameTime(i, j) ==
    /\ removed[i].kind = "Pickup"
    /\ removed[j].kind = "Cancellation"
    /\ removed[i].rider = removed[j].rider
    /\ removed[i].timestamp = removed[j].timestamp

\* The Pickup removed[i] was emitted by the RiderRequest of its rider: its
\* driver has asked for no rider since.  (Otherwise the rider waited and a
\* DriverRequest of that driver emitted the Pickup.)
MatchedAtRequest(i) ==
    \E k \in 1..(i - 1) :
        /\ removed[k].kind = "RiderRequest"
        /\ removed[k].rider = removed[i].rider
        /\ \A m \in (k + 1)..(i - 1) :
              ~(removed[m].kind = "DriverRequest"
                  /\ removed[m].driver = removed[i].driver)

\* C29: when the Pickup and the Cancellation of a rider have the same
\* timestamp, the one that was enqueued first is processed first: a rider
\* matched at its own RiderRequest (travel time equal to patience) is picked
\* up first and ends satisfied; a rider matched later from the waiting list
\* is cancelled first and ends cancelled, and its Pickup emits a
\* DriverRequest for the driver at the same time.
C29_SameTimePickupAndCancellation ==
    pc = "done" =>
       \A i, j \in DOMAIN removed :
          SameTime(i, j) =>
             LET r == removed[i].rider
                 d == removed[i].driver
             IN  IF MatchedAtRequest(i)
                 THEN /\ i < j
                      /\ rider[r].status = SATISFIED
                      /\ ~\E a \in Range(activities[RIDER][r]) :
                            a.description = CANCEL
                 ELSE /\ j < i
                      /\ rider[r].status = CANCELLED
                      /\ \E n \in (i + 1)..Len(removed) :
                            removed[n] = DriverRequest(removed[i].timestamp, d)
                      /\ ~\E a \in Range(activities[RIDER][r]) :
                            a.description = PICKUP

\* The run is over; one rider was matched at its request by a driver whose
\* travel time was the rider's patience, and another waited and was matched
\* by a driver that arrived at the time of the rider's cancellation.
C29_Witness ==
    /\ pc = "done"
    /\ \E i, j \in DOMAIN removed : SameTime(i, j) /\ MatchedAtRequest(i)
    /\ \E i, j \in DOMAIN removed : SameTime(i, j) /\ ~MatchedAtRequest(i)

\* C30: a Cancellation(t, rider) processed for a rider who is not satisfied
\* sets the rider's status to cancelled, takes the rider off the waiting
\* list if it is there, appends exactly one CANCEL activity to the rider's
\* log and emits no event; no driver and no registration changes and the
\* event queue loses only the Cancellation itself, so a driver on its way to
\* the rider keeps its destination and its Pickup stays in the queue.
C30_CancellationOfUnsatisfied ==
    [][ (Processes("Cancellation") /\ rider[Processed.rider].status # SATISFIED) =>
           LET t == Processed.timestamp
               r == Processed.rider
           IN  /\ rider' = [rider EXCEPT ![r].status = CANCELLED]
               /\ waiting_riders' = SelectSeq(waiting_riders, LAMBDA x : x # r)
               /\ r \notin Range(waiting_riders')
               /\ activities' =
                     [activities EXCEPT ![RIDER][r] =
                         Append(@, [time |-> t, description |-> CANCEL,
                                    id |-> r, location |-> rider[r].origin])]
               /\ ret' = <<>>
               /\ driver' = driver
               /\ drivers' = drivers
               /\ events' = Tail(events)
               /\ pc' = "run"
               /\ \A i \in DOMAIN events :
                     (events[i].kind = "Pickup" /\ events[i].rider = r) =>
                        /\ events[i] \in Range(events')
                        /\ driver'[events[i].driver].destination
                              = driver[events[i].driver].destination
      ]_vars

\* The Cancellation of a rider was processed while a driver was on its way
\* to the rider: the rider is cancelled, the driver still heads for the
\* rider's origin and the Pickup is still in the queue; another rider waits.
C30_Witness ==
    /\ call.op = "Cancellation"
    /\ rider[LastEvent.rider].status = CANCELLED
    /\ ret = <<>>
    /\ \E i \in DOMAIN events :
          /\ events[i].kind = "Pickup"
          /\ events[i].rider = LastEvent.rider
          /\ driver[events[i].driver].destination = rider[LastEvent.rider].origin
          /\ driver[events[i].driver].location # rider[LastEvent.rider].origin
    /\ waiting_riders # <<>>

\* C31: request_driver(rider) that returns a driver leaves that driver as it
\* was (its destination still not set, its location unchanged) and every
\* other driver too, leaves the waiting list and the registry unchanged (the
\* matched rider is not put on the list), and changes nothing of the riders
\* but the status of the rider, which it sets to waiting.
C31_MatchChangesOnlyStatus ==
    [][ (call'.op = "request_driver" /\ ret' # <<>>) =>
           LET r == call'.arg[1]
               d == ret'[1]
           IN  /\ d \in IdleRegistered
               /\ driver'[d].destination = NoLoc
               /\ driver'[d].location = driver[d].location
               /\ driver' = driver
               /\ waiting_riders' = waiting_riders
               /\ drivers' = drivers
               /\ rider' = [rider EXCEPT ![r].status = WAITING]
      ]_vars

\* A rider whose status was cancelled asked and got the second registered
\* driver, the nearer of two idle ones; the other rider is still waiting
\* alone on the list and the rider that asked is not on it.
C31_Witness ==
    /\ call.op = "request_driver"
    /\ Len(drivers) = 2
    /\ ret = <<drivers[2]>>
    /\ is_idle(driver[drivers[1]])
    /\ is_idle(driver[drivers[2]])
    /\ rider[call.arg[1]].status = WAITING
    /\ Len(waiting_riders) = 1
    /\ waiting_riders[1] # call.arg[1]

\* The riders whose RiderRequest has been processed.
Requested == {removed[i].rider : i \in {k \in DOMAIN removed :
                                          removed[k].kind = "RiderRequest"}}

\* C32: every rider whose RiderRequest is processed is resolved in the end: a
\* rider still waiting has its Cancellation in the event queue (so the run
\* is not over), and when run() returns every such rider is satisfied or
\* cancelled and the waiting list is empty.
C32_EveryRiderResolved ==
    /\ \A r \in Requested :
          rider[r].status = WAITING =>
             /\ pc = "run"
             /\ \E i \in DOMAIN events :
                   /\ events[i].kind = "Cancellation"
                   /\ events[i].rider = r
    /\ pc = "done" =>
          /\ waiting_riders = <<>>
          /\ \A r \in Requested : rider[r].status \in {SATISFIED, CANCELLED}

\* The run is over: one rider waited on the list until its patience ran
\* out, the other was picked up and dropped off.
C32_Witness ==
    /\ pc = "done"
    /\ Requested = RiderIds
    /\ \E r \in RiderIds :
          /\ rider[r].status = CANCELLED
          /\ rider[r].patience > 0
          /\ ~\E i \in DOMAIN removed :
                removed[i].kind = "Pickup" /\ removed[i].rider = r
    /\ \E r \in RiderIds :
          /\ rider[r].status = SATISFIED
          /\ \E i \in DOMAIN removed :
                removed[i].kind = "Dropoff" /\ removed[i].rider = r

\* A DriverRequest of driver d is in the event queue.
AsksAgain(d) ==
    \E i \in DOMAIN events :
        events[i].kind = "DriverRequest" /\ events[i].driver = d

\* C33: between two transitions of a run, when a rider is on the waiting
\* list every registered driver without a destination has a DriverRequest in
\* the event queue: no rider waits beside an idle registered driver that is
\* not going to ask for a rider.
C33_NoRiderWaitsBesideIdleDriver ==
    waiting_riders # <<>> => \A d \in IdleRegistered : AsksAgain(d)

\* A driver dropped its rider off while another rider was on the waiting
\* list: the driver is idle and registered, and its DriverRequest is queued.
C33_Witness ==
    /\ call.op = "Dropoff"
    /\ waiting_riders # <<>>
    /\ LastEvent.driver \in IdleRegistered
    /\ AsksAgain(LastEvent.driver)

\* C34: between two transitions of a run every rider on the waiting list has
\* the status waiting; so the rider a DriverRequest takes from the list is
\* waiting when it is matched, never cancelled or satisfied.
C34_WaitingListHoldsWaitingRiders ==
    [][ /\ \A i \in DOMAIN waiting_riders' :
              rider'[waiting_riders'[i]].status = WAITING
        /\ (Processes("DriverRequest") /\ ret' # <<>>) =>
              /\ ret'[1].kind = "Pickup"
              /\ ret'[1].rider = waiting_riders[1]
              /\ rider[ret'[1].rider].status = WAITING
              /\ rider'[ret'[1].rider].status = WAITING
      ]_vars

\* A DriverRequest took the second rider that asked from the waiting list;
\* the first one had been cancelled and taken off the list before.
C34_Witness ==
    /\ call.op = "DriverRequest"
    /\ Len(ret) = 1
    /\ rider[ret[1].rider].status = WAITING
    /\ \E r \in DOMAIN rider :
          /\ r # ret[1].rider
          /\ rider[r].status = CANCELLED
          /\ \E i, j \in DOMAIN removed :
                /\ i < j
                /\ removed[i] = RiderRequest(removed[i].timestamp, r)
                /\ removed[j] = RiderRequest(removed[j].timestamp, ret[1].rider)
          /\ ~\E i \in DOMAIN removed :
                removed[i].kind = "Pickup" /\ removed[i].rider = r
          /\ ~\E i \in DOMAIN events :
                events[i].kind = "Pickup" /\ events[i].rider = r

\* The number of Pickup events of rider r in the sequence s.
Pickups(s, r) ==
    Cardinality({i \in DOMAIN s : s[i].kind = "Pickup" /\ s[i].rider = r})

\* C35: each rider is matched at most once: of the events processed and the
\* events queued at most one is a Pickup of the rider (it was emitted by the
\* rider's RiderRequest or by the DriverRequest that took the rider from the
\* waiting list, never by both), a transition emits a Pickup only for a
\* rider that had none, and no Pickup is processed for a satisfied rider.
C35_AtMostOnePickupPerRider ==
    [][ /\ \A r \in DOMAIN rider :
              Pickups(removed', r) + Pickups(events', r) <= 1
        /\ \A k \in DOMAIN ret' :
              ret'[k].kind = "Pickup" =>
                 /\ Pickups(removed, ret'[k].rider) + Pickups(events, ret'[k].rider) = 0
                 /\ Pickups(ret', ret'[k].rider) = 1
                 /\ call'.op \in {"RiderRequest", "DriverRequest"}
        /\ Processes("Pickup") => rider[Processed.rider].status # SATISFIED
      ]_vars

\* The run is over and each of two riders had one Pickup: one emitted by
\* the rider's own request, the other by the request of a driver.
C35_Witness ==
    /\ pc = "done"
    /\ DOMAIN rider = RiderIds
    /\ \A r \in RiderIds : Pickups(removed, r) = 1
    /\ \E i, j \in DOMAIN removed :
          /\ removed[i].kind = "Pickup"
          /\ removed[j].kind = "Pickup"
          /\ MatchedAtRequest(i)
          /\ ~MatchedAtRequest(j)

\* What the activities of the log say, in the order logged.
Descriptions(log) == [i \in DOMAIN log |-> log[i].description]

\* C36: the activities the monitor holds of a rider are a prefix of REQUEST,
\* CANCEL or of REQUEST, PICKUP, DROPOFF, in the order logged: the first is
\* a REQUEST, the second a PICKUP or a CANCEL, no rider has both, a DROPOFF
\* comes only after a PICKUP, and the times do not decrease.
C36_RiderLogShape ==
    \A r \in DOMAIN rider :
        LET log == activities[RIDER][r]
        IN  /\ \/ IsPrefix(Descriptions(log), <<REQUEST, CANCEL>>)
               \/ IsPrefix(Descriptions(log), <<REQUEST, PICKUP, DROPOFF>>)
            /\ \A i, j \in DOMAIN log : i < j => log[i].time <= log[j].time
            /\ \A i \in DOMAIN log : log[i].id = r

\* The run is over: one rider's log is REQUEST, CANCEL and the other's is
\* REQUEST, PICKUP, DROPOFF with the Cancellation processed after the Pickup,
\* at three different times.
C36_Witness ==
    /\ pc = "done"
    /\ \E r \in DOMAIN rider :
          Descriptions(activities[RIDER][r]) = <<REQUEST, CANCEL>>
    /\ \E r \in DOMAIN rider :
          /\ Descriptions(activities[RIDER][r]) = <<REQUEST, PICKUP, DROPOFF>>
          /\ activities[RIDER][r][1].time < activities[RIDER][r][2].time
          /\ activities[RIDER][r][2].time < activities[RIDER][r][3].time
          /\ \E i \in DOMAIN removed :
                removed[i].kind = "Cancellation" /\ removed[i].rider = r

\* The PICKUP and DROPOFF activities of driver d, in the order logged.
RideLog(d) ==
    SelectSeq(activities[DRIVER][d],
              LAMBDA a : a.description \in {PICKUP, DROPOFF})

\* The Pickup events processed for driver d that started a ride (the rider
\* was waiting, and is satisfied since), in the order processed.
Rides(d) ==
    SelectSeq(removed, LAMBDA e : /\ e.kind = "Pickup"
                                  /\ e.driver = d
                                  /\ rider[e.rider].status = SATISFIED)

\* C37: a driver's activities in the monitor start with a REQUEST, and its
\* PICKUP and DROPOFF activities alternate, a PICKUP first: the PICKUP of
\* the driver's k-th ride is logged at the rider's origin at the time of the
\* Pickup and the DROPOFF, when logged, at that rider's destination; a
\* DROPOFF is missing only while the Dropoff of the last ride is queued, so
\* when run() has returned every PICKUP is followed by its DROPOFF.
C37_DriverLogShape ==
    \A d \in DOMAIN driver :
        LET log == activities[DRIVER][d]
        IN  /\ log # <<>> => log[1].description = REQUEST
            /\ \A i \in DOMAIN RideLog(d) :
                  LET ride == Rides(d)[(i + 1) \div 2]
                  IN  /\ (i + 1) \div 2 <= Len(Rides(d))
                      /\ IF i % 2 = 1
                         THEN /\ RideLog(d)[i].description = PICKUP
                              /\ RideLog(d)[i].location = rider[ride.rider].origin
                              /\ RideLog(d)[i].time = ride.timestamp
                         ELSE /\ RideLog(d)[i].description = DROPOFF
                              /\ RideLog(d)[i].location
                                    = rider[ride.rider].destination
                              /\ RideLog(d)[i].time >= ride.timestamp
            /\ Len(RideLog(d)) \in {2 * Len(Rides(d)), 2 * Len(Rides(d)) - 1}
            /\ Len(RideLog(d)) % 2 = 1 =>
                  \E k \in DOMAIN events :
                      /\ events[k].kind = "Dropoff"
                      /\ events[k].driver = d
                      /\ events[k].rider = Rides(d)[Len(Rides(d))].rider
            /\ pc = "done" => Len(RideLog(d)) = 2 * Len(Rides(d))

\* The run is over and one driver has given two rides, to riders with
\* different destinations: its log holds PICKUP, DROPOFF, PICKUP, DROPOFF.
C37_Witness ==
    /\ pc = "done"
    /\ \E d \in DOMAIN driver :
          /\ Len(Rides(d)) = 2
          /\ Len(RideLog(d)) = 4
          /\ RideLog(d)[2].location # RideLog(d)[4].location
          /\ RideLog(d)[1].location # RideLog(d)[2].location
====
